---- MODULE Spec2Model ----
(***************************************************************************)
(* The tea record store of src/index.js: the module-level state teaData    *)
(* and nextId, and the five Express route handlers that read and change    *)
(* it.  Every handler is synchronous, so one request is one atomic step.   *)
(*                                                                         *)
(* Encoding of JavaScript values:                                          *)
(*   - a string is a sequence of one-character strings where its           *)
(*     characters are inspected (the :id path segment), and a TLA+ string  *)
(*     where it is opaque (names, response messages); a character that a   *)
(*     TLA+ string cannot hold is written as its code point, "U+00A0";     *)
(*   - a value that may be undefined (a body field) or NaN (the result of  *)
(*     parseInt) is << >> when undefined/NaN and <<v>> when it is v;       *)
(*   - a tea object is a record [id, name, price];                         *)
(*   - arrays are sequences; JavaScript's 0-based indices are kept in      *)
(*     FindIndex and Splice and shifted by one where the sequence is read. *)
(*                                                                         *)
(* req.body is the object express.json() delivers (line 15); a request     *)
(* without name or price delivers an object where that field is undefined. *)
(***************************************************************************)
EXTENDS Integers, Sequences, FiniteSets

(* Bound on the number of POST /teas requests in one behaviour. *)
MaxCreates == 3

(* Bound on the number of requests in flight at once. *)
MaxInFlight == 2

VARIABLES
    teaData,    \* line 19: the array of tea objects
    nextId,     \* line 23: the id counter
    req,        \* the request handled last: [method, id, body]
    res,        \* the response sent to it: [status, body]
    prev,       \* history: the method of the request handled before req
    found,      \* history: whether a tea had the id of req when it arrived
    creates,    \* history: number of POST /teas handled so far
    created,    \* history: the ids returned by POST /teas so far
    deleted,    \* history: the ids whose DELETE answered 204 so far
    slots,      \* the requests in flight, and how far their handlers are
    seq,        \* ghost: the store had every started handler run at once
    mismatch    \* ghost: a response differed from that of the atomic handler

vars == <<teaData, nextId, req, res, prev, found, creates, created, deleted,
          slots, seq, mismatch>>

----------------------------------------------------------------------------
(* JavaScript values *)

Undefined == << >>
NaN == << >>

(* The decimal and hexadecimal digit characters, by value + 1. *)
DigitChars == <<"0", "1", "2", "3", "4", "5", "6", "7", "8", "9",
                "a", "b", "c", "d", "e", "f">>
UpperDigitChars == <<"0", "1", "2", "3", "4", "5", "6", "7", "8", "9",
                     "A", "B", "C", "D", "E", "F">>

(* The value of each digit character. *)
DigitTable ==
    [c \in {DigitChars[i] : i \in 1..16} \cup {UpperDigitChars[i] : i \in 1..16}
       |-> IF \E i \in 1..16 : DigitChars[i] = c
           THEN (CHOOSE i \in 1..16 : DigitChars[i] = c) - 1
           ELSE (CHOOSE i \in 1..16 : UpperDigitChars[i] = c) - 1]

(* The value of character c as a digit, -1 when it is none. *)
DigitValue(c) == IF c \in DOMAIN DigitTable THEN DigitTable[c] ELSE -1

(* The characters parseInt skips at the start: WhiteSpace (tab, vertical   *)
(* tab, form feed, space, no-break space, the other space separators, the  *)
(* byte order mark) and LineTerminator (line feed, carriage return, line   *)
(* and paragraph separator).                                               *)
WhiteSpaceChars ==
    {"\t", "U+000B", "\f", " ", "U+00A0", "U+1680", "U+2000", "U+2001",
     "U+2002", "U+2003", "U+2004", "U+2005", "U+2006", "U+2007", "U+2008",
     "U+2009", "U+200A", "U+202F", "U+205F", "U+3000", "U+FEFF",
     "\n", "\r", "U+2028", "U+2029"}

IsWhiteSpace(c) == c \in WhiteSpaceChars

RECURSIVE TrimStart(_)
TrimStart(s) ==
    IF s /= << >> /\ IsWhiteSpace(Head(s)) THEN TrimStart(Tail(s)) ELSE s

(* The longest prefix of s made of digits of the radix, as a number;       *)
(* seen tells whether a digit has been consumed, acc is their value.       *)
RECURSIVE ParseDigits(_, _, _, _)
ParseDigits(s, radix, acc, seen) ==
    LET d == DigitValue(Head(s))
    IN  IF s /= << >> /\ d >= 0 /\ d < radix
        THEN ParseDigits(Tail(s), radix, acc * radix + d, TRUE)
        ELSE IF seen THEN <<acc>> ELSE NaN

(* parseInt(string) with no radix argument: leading white space is         *)
(* skipped, a sign is read, a 0x prefix selects radix 16, and the digits   *)
(* up to the first character that is none are the value; whatever follows  *)
(* is ignored.  NaN when there is no digit.                                *)
ParseInt(s) ==
    LET t == TrimStart(s)
        neg == t /= << >> /\ Head(t) = "-"
        u == IF t /= << >> /\ Head(t) \in {"+", "-"} THEN Tail(t) ELSE t
        hex == Len(u) >= 2 /\ u[1] = "0" /\ u[2] \in {"x", "X"}
        v == IF hex THEN SubSeq(u, 3, Len(u)) ELSE u
        m == ParseDigits(v, IF hex THEN 16 ELSE 10, 0, FALSE)
    IN  IF m = NaN THEN NaN ELSE IF neg THEN <<0 - m[1]>> ELSE m

(* t.id === n, where t.id is a number and n a number or NaN. *)
StrictEq(id, n) == n = <<id>>

(* The decimal representation of a natural number, as it appears in a path. *)
RECURSIVE ToString(_)
ToString(n) ==
    IF n < 10 THEN <<DigitChars[n + 1]>>
    ELSE ToString(n \div 10) \o <<DigitChars[(n % 10) + 1]>>

----------------------------------------------------------------------------
(* Array methods *)

(* array.find(t => t.id === n): the first match, Undefined when none. *)
RECURSIVE Find(_, _)
Find(arr, n) ==
    IF arr = << >> THEN Undefined
    ELSE IF StrictEq(Head(arr).id, n) THEN <<Head(arr)>>
    ELSE Find(Tail(arr), n)

(* array.findIndex(t => t.id === n): the 0-based index of the first match,  *)
(* -1 when none.                                                            *)
FindIndex(arr, n) ==
    IF \E i \in 1..Len(arr) : StrictEq(arr[i].id, n)
    THEN (CHOOSE i \in 1..Len(arr) :
             /\ StrictEq(arr[i].id, n)
             /\ \A j \in 1..(i - 1) : ~StrictEq(arr[j].id, n)) - 1
    ELSE -1

(* array.splice(index, 1): the array without the element at the 0-based    *)
(* index; a negative index counts from the end.                            *)
Splice(arr, index) ==
    LET start == IF index < 0
                 THEN (IF Len(arr) + index < 0 THEN 0 ELSE Len(arr) + index)
                 ELSE (IF index > Len(arr) THEN Len(arr) ELSE index)
    IN  SubSeq(arr, 1, start) \o SubSeq(arr, start + 2, Len(arr))

(* array.push(x) *)
Push(arr, x) == Append(arr, x)

----------------------------------------------------------------------------
(* Responses *)

NoContent == ""

(* res.status(status).send(body): Express sends no body with a 204 or 304  *)
(* status, whatever send() is given.                                       *)
Send(status, body) ==
    [status |-> status,
     body |-> IF status \in {204, 304} THEN NoContent ELSE body]

(* What a handler leaves behind: the store and the response. *)
Outcome(data, next, response) ==
    [teaData |-> data, nextId |-> next, res |-> response]

----------------------------------------------------------------------------
(* The route handlers, as functions of the store and the request *)

(* Variants of the handlers with one slip each; the properties below are   *)
(* checked to tell the handlers from them.                                 *)

(* id: ++nextId instead of id: nextId++ *)
PostTeas_PreIncrement(data, next, body) ==
    LET newTea == [id |-> next + 1, name |-> body.name, price |-> body.price]
    IN  Outcome(Push(data, newTea), next + 1, Send(201, newTea))

(* id: teaData.length + 1 instead of the counter *)
PostTeas_IdFromLength(data, next, body) ==
    LET newTea == [id |-> Len(data) + 1, name |-> body.name,
                   price |-> body.price]
    IN  Outcome(Push(data, newTea), next + 1, Send(201, newTea))

(* teaData.unshift(newTea) instead of teaData.push(newTea) *)
PostTeas_Unshift(data, next, body) ==
    LET newTea == [id |-> next, name |-> body.name, price |-> body.price]
    IN  Outcome(<<newTea>> \o data, next + 1, Send(201, newTea))

(* id: nextId without the increment *)
PostTeas_NoIncrement(data, next, body) ==
    LET newTea == [id |-> next, name |-> body.name, price |-> body.price]
    IN  Outcome(Push(data, newTea), next, Send(201, newTea))

(* price: price || 0, an absent price stored as 0 *)
PostTeas_DefaultPrice(data, next, body) ==
    LET price == IF body.price = Undefined THEN <<0>> ELSE body.price
        newTea == [id |-> next, name |-> body.name, price |-> price]
    IN  Outcome(Push(data, newTea), next + 1, Send(201, newTea))

(* POST /teas, lines 27-46 *)
PostTeas(data, next, body) ==
    LET name == body.name
        price == body.price
        newTea == [id |-> next, name |-> name, price |-> price]
    IN  Outcome(Push(data, newTea), next + 1, Send(201, newTea))

(* res.send(teaData.reverse()): newest first, reversing the array in place *)
GetTeas_Reverse(data, next) ==
    LET reversed == [i \in 1..Len(data) |-> data[Len(data) + 1 - i]]
    IN  Outcome(reversed, next, Send(200, reversed))

(* GET /teas, lines 50-52 *)
GetTeas(data, next) == Outcome(data, next, Send(200, data))

(* teaData[parseInt(req.params.id)] instead of find() *)
GetTeaById_ByIndex(data, next, id) ==
    LET n == ParseInt(id)
    IN  IF n = NaN \/ n[1] < 0 \/ n[1] >= Len(data)
        THEN Outcome(data, next, Send(404, "tea not found "))
        ELSE Outcome(data, next, Send(200, data[n[1] + 1]))

(* GET /teas/:id, lines 56-63 *)
GetTeaById(data, next, id) ==
    LET tea == Find(data, ParseInt(id))
    IN  IF tea = Undefined
        THEN Outcome(data, next, Send(404, "tea not found "))
        ELSE Outcome(data, next, Send(200, tea[1]))

(* a tea that is not found is added instead of answered with 404 *)
PutTeaById_Upsert(data, next, id, body) ==
    LET tea == Find(data, ParseInt(id))
        index == FindIndex(data, ParseInt(id))
    IN  IF tea = Undefined
        THEN LET newTea == [id |-> next, name |-> body.name,
                            price |-> body.price]
             IN  Outcome(Push(data, newTea), next + 1, Send(200, newTea))
        ELSE LET updated == [tea[1] EXCEPT !.name = body.name,
                                           !.price = body.price]
             IN  Outcome([data EXCEPT ![index + 1] = updated], next,
                         Send(200, updated))

(* a field absent from the request keeps its old value *)
PutTeaById_KeepAbsent(data, next, id, body) ==
    LET tea == Find(data, ParseInt(id))
        index == FindIndex(data, ParseInt(id))
    IN  IF tea = Undefined
        THEN Outcome(data, next, Send(404, "tea not found "))
        ELSE LET name == IF body.name = Undefined THEN tea[1].name
                         ELSE body.name
                 price == IF body.price = Undefined THEN tea[1].price
                          ELSE body.price
                 updated == [tea[1] EXCEPT !.name = name, !.price = price]
             IN  Outcome([data EXCEPT ![index + 1] = updated], next,
                         Send(200, updated))

(* PUT /teas/:id, lines 67-81.  tea is a reference into teaData, so the    *)
(* two assignments change the array element in place.                      *)
PutTeaById(data, next, id, body) ==
    LET tea == Find(data, ParseInt(id))
        index == FindIndex(data, ParseInt(id))
    IN  IF tea = Undefined
        THEN Outcome(data, next, Send(404, "tea not found "))
        ELSE LET name == body.name
                 price == body.price
                 updated == [tea[1] EXCEPT !.name = name, !.price = price]
             IN  Outcome([data EXCEPT ![index + 1] = updated], next,
                         Send(200, updated))

(* the freed id is handed back to the counter *)
DeleteTeaById_ReleaseId(data, next, id) ==
    LET index == FindIndex(data, ParseInt(id))
    IN  IF index = -1
        THEN Outcome(data, next, Send(404, "tea not found"))
        ELSE Outcome(Splice(data, index), next - 1, Send(204, "deleted "))

(* the splice is missing *)
DeleteTeaById_NoSplice(data, next, id) ==
    LET index == FindIndex(data, ParseInt(id))
    IN  IF index = -1
        THEN Outcome(data, next, Send(404, "tea not found"))
        ELSE Outcome(data, next, Send(204, "deleted "))

(* the index === -1 test is missing: splice(-1, 1) takes the last element *)
DeleteTeaById_NoCheck(data, next, id) ==
    LET index == FindIndex(data, ParseInt(id))
    IN  Outcome(Splice(data, index), next, Send(204, "deleted "))

(* status 200 instead of 204, so that the message is sent *)
DeleteTeaById_Status200(data, next, id) ==
    LET index == FindIndex(data, ParseInt(id))
    IN  IF index = -1
        THEN Outcome(data, next, Send(404, "tea not found"))
        ELSE Outcome(Splice(data, index), next, Send(200, "deleted "))

(* teaData.splice(parseInt(req.params.id), 1): the id taken for the index *)
DeleteTeaById_ById(data, next, id) ==
    LET index == FindIndex(data, ParseInt(id))
    IN  IF index = -1
        THEN Outcome(data, next, Send(404, "tea not found"))
        ELSE Outcome(Splice(data, ParseInt(id)[1]), next,
                     Send(204, "deleted "))

(* teaData.splice(index) without the count: the rest of the array goes too *)
DeleteTeaById_SpliceRest(data, next, id) ==
    LET index == FindIndex(data, ParseInt(id))
    IN  IF index = -1
        THEN Outcome(data, next, Send(404, "tea not found"))
        ELSE Outcome(SubSeq(data, 1, index), next, Send(204, "deleted "))

(* DELETE /teas/:id, lines 85-94 *)
DeleteTeaById(data, next, id) ==
    LET index == FindIndex(data, ParseInt(id))
    IN  IF index = -1
        THEN Outcome(data, next, Send(404, "tea not found"))
        ELSE Outcome(Splice(data, index), next, Send(204, "deleted "))

----------------------------------------------------------------------------
(* Requests *)

(* Request bodies: both fields, one of them, none. *)
Bodies ==
    {[name |-> <<"Green Tea">>, price |-> <<100>>],
     [name |-> <<"Black Tea">>, price |-> Undefined],
     [name |-> Undefined, price |-> Undefined]}

NoBody == [name |-> Undefined, price |-> Undefined]
NoId == << >>

(* The :id path segments: the ids the store can hold and their neighbours, *)
(* and segments that are no decimal integer: a number followed by other    *)
(* characters, a fraction, a word, a hexadecimal number, a number after a  *)
(* space and after a form feed, a negative number.                         *)
PathIds ==
    {ToString(i) : i \in 0..(MaxCreates + 1)}
    \cup {<<"1", "a", "b", "c">>, <<"1", ".", "5">>, <<"a", "b", "c">>,
          <<"0", "x", "2">>, <<" ", "1">>, <<"\f", "1">>, <<"-", "1">>}

Ids(data) == {data[i].id : i \in 1..Len(data)}

(* The teas of data that the handlers match with path segment id. *)
Matches(data, id) ==
    LET n == ParseInt(id)
    IN  {i \in 1..Len(data) : StrictEq(data[i].id, n)}

(* A slot for a request in flight: where its handler is (pc), the request, *)
(* the handler's local variables, the number of responses sent and the     *)
(* status of the first, and the response the atomic handler gives.         *)
FreeSlot ==
    [pc |-> "free", method |-> "NONE", id |-> NoId, body |-> NoBody,
     tea |-> Undefined, index |-> -1, newTea |-> Undefined,
     sent |-> 0, status |-> 0,
     expected |-> [status |-> 0, body |-> NoContent]]

Slots == 1..MaxInFlight

(* The store changes as the handler's outcome says, and the request and    *)
(* its response are recorded.                                              *)
Handle(out, method, id, body) ==
    /\ teaData' = out.teaData
    /\ nextId' = out.nextId
    /\ res' = out.res
    /\ req' = [method |-> method, id |-> id, body |-> body]
    /\ prev' = req.method
    /\ found' = (id /= NoId /\ Matches(teaData, id) /= {})
    /\ UNCHANGED <<slots, seq, mismatch>>

Create(body) ==
    /\ creates < MaxCreates
    /\ LET out == PostTeas(teaData, nextId, body)
       IN  /\ Handle(out, "POST", NoId, body)
           /\ creates' = creates + 1
           /\ created' = created \cup {out.res.body.id}
    /\ UNCHANGED deleted

List ==
    /\ Handle(GetTeas(teaData, nextId), "LIST", NoId, NoBody)
    /\ UNCHANGED <<creates, created, deleted>>

GetById(id) ==
    /\ Handle(GetTeaById(teaData, nextId, id), "GET", id, NoBody)
    /\ UNCHANGED <<creates, created, deleted>>

UpdateById(id, body) ==
    /\ Handle(PutTeaById(teaData, nextId, id, body), "PUT", id, body)
    /\ UNCHANGED <<creates, created, deleted>>

DeleteById(id) ==
    /\ LET out == DeleteTeaById(teaData, nextId, id)
       IN  /\ Handle(out, "DELETE", id, NoBody)
           /\ deleted' = IF out.res.status = 204 /\ ParseInt(id) /= NaN
                         THEN deleted \cup {ParseInt(id)[1]}
                         ELSE deleted
    /\ UNCHANGED <<creates, created>>

(* Lines 19 and 23; no request has been handled. *)
Init ==
    /\ teaData = << >>
    /\ nextId = 1
    /\ req = [method |-> "NONE", id |-> NoId, body |-> NoBody]
    /\ res = [status |-> 0, body |-> NoContent]
    /\ prev = "NONE"
    /\ found = FALSE
    /\ creates = 0
    /\ created = {}
    /\ deleted = {}
    /\ slots = [c \in Slots |-> FreeSlot]
    /\ seq = [teaData |-> << >>, nextId |-> 1]
    /\ mismatch = FALSE

Next ==
    \/ \E body \in Bodies : Create(body)
    \/ List
    \/ \E id \in PathIds : GetById(id)
    \/ \E id \in PathIds, body \in Bodies : UpdateById(id, body)
    \/ \E id \in PathIds : DeleteById(id)

Spec == Init /\ [][Next]_vars

----------------------------------------------------------------------------
(* Several requests in flight.  The handlers are taken statement by        *)
(* statement (a pc is the method and the source line of the statement to   *)
(* execute next), and the event loop decides when a handler of a waiting   *)
(* request is entered.                                                     *)

(* The :id path segments and the bodies of the requests in flight. *)
StepPathIds == {ToString(1), ToString(MaxCreates)}
StepBodies == {b \in Bodies : (b.name = Undefined) = (b.price = Undefined)}

(* The first statement of each handler. *)
First(method) ==
    CASE method = "POST" -> "post36"
      [] method = "LIST" -> "list51"
      [] method = "GET" -> "get57"
      [] method = "PUT" -> "put69"
      [] method = "DELETE" -> "del86"

IsRunning(s) == s.pc \notin {"free", "queued", "responded"}

RunningSlots == {c \in Slots : IsRunning(slots[c])}

(* The event loop runs callbacks one after the other without interleaving  *)
(* them.                                                                   *)
CanStart_Interleaved(c) == slots[c].pc = "queued"

(* The handlers are synchronous functions: none awaits or defers a part of *)
(* its work, so the event loop enters the handler of a waiting request     *)
(* only when no other handler is part-way.                                 *)
CanStart(c) == slots[c].pc = "queued" /\ RunningSlots = {}

(* the return is missing: after the 404 the handler goes on *)
NotFoundReturn_FallThrough(method) ==
    CASE method = "PUT" -> "put77"
      [] method = "DELETE" -> "del92"
      [] OTHER -> "responded"

(* return res.status(404).send(...), lines 59, 72 and 89: the handler ends *)
NotFoundReturn(method) == "responded"

(* An assignment to a field of the object tea refers to, element index of  *)
(* the array.                                                              *)
WriteThrough(data, index, tea) ==
    IF index + 1 \in 1..Len(data) /\ data[index + 1].id = tea.id
    THEN [data EXCEPT ![index + 1] = tea]
    ELSE data

(* What one statement leaves behind: the handler's state, the store, and   *)
(* the response when the statement sends one.                              *)
Executed(s, data, next, out) ==
    [slot |-> s, teaData |-> data, nextId |-> next, out |-> out]

(* The statement at s.pc, executed on the store. *)
Exec(s, data, next) ==
    CASE s.pc = "post36" ->
           Executed([s EXCEPT !.pc = "post42",
                              !.newTea = <<[id |-> next, name |-> s.body.name,
                                            price |-> s.body.price]>>],
                    data, next + 1, << >>)
      [] s.pc = "post42" ->
           Executed([s EXCEPT !.pc = "post45"], Push(data, s.newTea[1]), next,
                    << >>)
      [] s.pc = "post45" ->
           Executed([s EXCEPT !.pc = "responded"], data, next,
                    <<Send(201, s.newTea[1])>>)
      [] s.pc = "list51" ->
           Executed([s EXCEPT !.pc = "responded"], data, next,
                    <<Send(200, data)>>)
      [] s.pc = "get57" ->
           Executed([s EXCEPT !.pc = "get58",
                              !.tea = Find(data, ParseInt(s.id))],
                    data, next, << >>)
      [] s.pc = "get58" ->
           IF s.tea = Undefined
           THEN Executed([s EXCEPT !.pc = NotFoundReturn(s.method)], data,
                         next, <<Send(404, "tea not found ")>>)
           ELSE Executed([s EXCEPT !.pc = "responded"], data, next,
                         <<Send(200, s.tea[1])>>)
      [] s.pc = "put69" ->
           Executed([s EXCEPT !.pc = "put71",
                              !.tea = Find(data, ParseInt(s.id)),
                              !.index = FindIndex(data, ParseInt(s.id))],
                    data, next, << >>)
      [] s.pc = "put71" ->
           IF s.tea = Undefined
           THEN Executed([s EXCEPT !.pc = NotFoundReturn(s.method)], data,
                         next, <<Send(404, "tea not found ")>>)
           ELSE Executed([s EXCEPT !.pc = "put77"], data, next, << >>)
      [] s.pc = "put77" ->
           IF s.tea = Undefined
           THEN \* a TypeError ends the handler
                Executed([s EXCEPT !.pc = "responded"], data, next, << >>)
           ELSE LET tea == [s.tea[1] EXCEPT !.name = s.body.name]
                IN  Executed([s EXCEPT !.pc = "put78", !.tea = <<tea>>],
                             WriteThrough(data, s.index, tea), next, << >>)
      [] s.pc = "put78" ->
           LET tea == [s.tea[1] EXCEPT !.price = s.body.price]
           IN  Executed([s EXCEPT !.pc = "put80", !.tea = <<tea>>],
                        WriteThrough(data, s.index, tea), next, << >>)
      [] s.pc = "put80" ->
           Executed([s EXCEPT !.pc = "responded"], data, next,
                    <<Send(200, s.tea[1])>>)
      [] s.pc = "del86" ->
           Executed([s EXCEPT !.pc = "del88",
                              !.index = FindIndex(data, ParseInt(s.id))],
                    data, next, << >>)
      [] s.pc = "del88" ->
           IF s.index = -1
           THEN Executed([s EXCEPT !.pc = NotFoundReturn(s.method)], data,
                         next, <<Send(404, "tea not found")>>)
           ELSE Executed([s EXCEPT !.pc = "del92"], data, next, << >>)
      [] s.pc = "del92" ->
           Executed([s EXCEPT !.pc = "del93"], Splice(data, s.index), next,
                    << >>)
      [] s.pc = "del93" ->
           Executed([s EXCEPT !.pc = "responded"], data, next,
                    <<Send(204, "deleted ")>>)

(* The handler of the request of slot s, run at once. *)
Atomic(s, data, next) ==
    CASE s.method = "POST" -> PostTeas(data, next, s.body)
      [] s.method = "LIST" -> GetTeas(data, next)
      [] s.method = "GET" -> GetTeaById(data, next, s.id)
      [] s.method = "PUT" -> PutTeaById(data, next, s.id, s.body)
      [] s.method = "DELETE" -> DeleteTeaById(data, next, s.id)

SameResponse(a, b) == a.status = b.status /\ a.body = b.body

(* A request arrives, on the first connection that has none in flight. *)
Arrive(c, method, id, body) ==
    /\ slots[c].pc \in {"free", "responded"}
    /\ \A d \in 1..(c - 1) : slots[d].pc \notin {"free", "responded"}
    /\ method = "POST" => creates < MaxCreates
    /\ slots' = [slots EXCEPT ![c] = [FreeSlot EXCEPT !.pc = "queued",
                                                      !.method = method,
                                                      !.id = id,
                                                      !.body = body]]
    /\ creates' = IF method = "POST" THEN creates + 1 ELSE creates
    /\ UNCHANGED <<teaData, nextId, req, res, prev, found, created, deleted,
                   seq, mismatch>>

(* The event loop enters the handler of a waiting request. *)
Start(c) ==
    /\ CanStart(c)
    /\ LET s == slots[c]
           o == Atomic(s, seq.teaData, seq.nextId)
       IN  /\ slots' = [slots EXCEPT ![c] = [s EXCEPT !.pc = First(s.method),
                                                      !.expected = o.res]]
           /\ seq' = [teaData |-> o.teaData, nextId |-> o.nextId]
    /\ UNCHANGED <<teaData, nextId, req, res, prev, found, creates, created,
                   deleted, mismatch>>

(* A handler executes its next statement. *)
Step(c) ==
    /\ IsRunning(slots[c])
    /\ LET e == Exec(slots[c], teaData, nextId)
           s == IF e.out = << >> THEN e.slot
                ELSE [e.slot EXCEPT !.sent = @ + 1,
                                    !.status = IF @ = 0 THEN e.out[1].status
                                               ELSE @]
       IN  /\ teaData' = e.teaData
           /\ nextId' = e.nextId
           /\ mismatch' = (\/ mismatch
                           \/ /\ e.out /= << >>
                              /\ ~SameResponse(e.out[1], slots[c].expected))
           /\ slots' = [slots EXCEPT ![c] =
                           IF s.pc = "responded"
                           THEN [FreeSlot EXCEPT !.pc = "responded",
                                                 !.sent = s.sent,
                                                 !.status = s.status]
                           ELSE s]
    /\ UNCHANGED <<req, res, prev, found, creates, created, deleted, seq>>

StepNext ==
    \/ \E c \in Slots, body \in StepBodies : Arrive(c, "POST", NoId, body)
    \/ \E c \in Slots : Arrive(c, "LIST", NoId, NoBody)
    \/ \E c \in Slots, id \in StepPathIds : Arrive(c, "GET", id, NoBody)
    \/ \E c \in Slots, id \in StepPathIds, body \in StepBodies :
          Arrive(c, "PUT", id, body)
    \/ \E c \in Slots, id \in StepPathIds : Arrive(c, "DELETE", id, NoBody)
    \/ \E c \in Slots : Start(c)
    \/ \E c \in Slots : Step(c)

StepSpec == Init /\ [][StepNext]_vars

----------------------------------------------------------------------------
(* Properties *)

(* C1: the k-th create answers 201 with a record whose id is k, whatever   *)
(* other requests were handled before it.                                  *)
C1_KthCreateReturnsIdK ==
    req.method = "POST" => res.status = 201 /\ res.body.id = creates

C1_Witness ==
    /\ req.method = "POST"
    /\ creates >= 2
    /\ deleted /= {}
    /\ res.body.id = creates

(* C2: nextId is greater than every id a create has returned, deleted      *)
(* ones included, and a create never returns an id returned before.        *)
C2_NextIdAboveEveryCreatedId ==
    /\ [](\A i \in created : nextId > i)
    /\ [][creates' /= creates => res'.body.id \notin created]_vars

C2_Witness ==
    /\ req.method = "POST"
    /\ prev = "DELETE"
    /\ deleted /= {}
    /\ res.body.id \notin deleted
    /\ \A i \in deleted : nextId > i

(* C3: no two elements of teaData have the same id. *)
C3_UniqueIds ==
    \A i, j \in 1..Len(teaData) : teaData[i].id = teaData[j].id => i = j

C3_Witness ==
    /\ Len(teaData) >= 2
    /\ deleted /= {}
    /\ req.method = "POST"

(* C4: a getById of the id a create has just returned answers 200 with     *)
(* the record {id, name, price} of that create.                            *)
C4_GetAfterCreate ==
    [][(req.method = "POST" /\ req'.method = "GET"
        /\ req'.id = ToString(res.body.id))
       => (/\ res'.status = 200
           /\ res'.body = [id |-> res.body.id, name |-> req.body.name,
                           price |-> req.body.price])]_vars

C4_Witness ==
    /\ prev = "POST"
    /\ req.method = "GET"
    /\ res.status = 200
    /\ req.id = ToString(res.body.id)
    /\ res.body = teaData[Len(teaData)]
    /\ deleted /= {}

(* C5: once a delete of an id has succeeded, no record has that id and     *)
(* every getById of it answers 404, whatever was handled in between.       *)
C5_DeletedStaysNotFound ==
    /\ Ids(teaData) \cap deleted = {}
    /\ (req.method = "GET" /\ ParseInt(req.id) /= NaN
        /\ ParseInt(req.id)[1] \in deleted) => res.status = 404

C5_Witness ==
    /\ req.method = "GET"
    /\ ParseInt(req.id) /= NaN
    /\ ParseInt(req.id)[1] \in deleted
    /\ res.status = 404
    /\ prev = "POST"
    /\ teaData /= << >>

(* C6: an update of an id that no record has answers 404 and leaves        *)
(* teaData and nextId as they were.                                        *)
C6_UpdateMissingIsNotFound ==
    [][(req'.method = "PUT" /\ Matches(teaData, req'.id) = {})
       => (res'.status = 404 /\ teaData' = teaData /\ nextId' = nextId)]_vars

C6_Witness ==
    /\ req.method = "PUT"
    /\ Matches(teaData, req.id) = {}
    /\ res.status = 404
    /\ Len(teaData) >= 2

(* C7: a delete of an id that no record has answers 404 and leaves         *)
(* teaData and nextId as they were.                                        *)
C7_DeleteMissingIsNotFound ==
    [][(req'.method = "DELETE" /\ Matches(teaData, req'.id) = {})
       => (res'.status = 404 /\ teaData' = teaData /\ nextId' = nextId)]_vars

C7_Witness ==
    /\ req.method = "DELETE"
    /\ res.status = 404
    /\ Len(teaData) >= 2
    /\ prev = "PUT"

(* C8: after k creates and no delete, list answers with exactly k records, *)
(* the i-th of them having id i.                                           *)
C8_ListInCreationOrder ==
    (req.method = "LIST" /\ deleted = {})
    => (/\ res.status = 200
        /\ Len(res.body) = creates
        /\ \A i \in 1..creates : res.body[i].id = i)

C8_Witness ==
    /\ req.method = "LIST"
    /\ deleted = {}
    /\ prev = "PUT"
    /\ creates >= 2
    /\ Len(res.body) = creates
    /\ res.body[creates].id = creates

(* C9: getById, updateById and deleteById answer 404 exactly when no       *)
(* record had the id when the request arrived; otherwise 200 with the      *)
(* record, 200 with the updated record, and 204 without data.  create      *)
(* answers 201 and list 200.                                               *)
C9_NotFoundIffAbsent ==
    LET m == Matches(teaData, req.id)
        i == CHOOSE i \in m : TRUE
    IN  /\ req.method \in {"GET", "PUT", "DELETE"}
             => (res.status = 404 <=> ~found)
        /\ (req.method = "GET" /\ found)
             => (res.status = 200 /\ m /= {} /\ res.body = teaData[i])
        /\ (req.method = "PUT" /\ found)
             => (/\ res.status = 200
                 /\ m /= {}
                 /\ res.body = teaData[i]
                 /\ res.body.name = req.body.name
                 /\ res.body.price = req.body.price)
        /\ (req.method = "DELETE" /\ found)
             => (res.status = 204 /\ res.body = NoContent)
        /\ req.method = "POST" => res.status = 201
        /\ req.method = "LIST" => res.status = 200

C9_Witness ==
    /\ req.method = "DELETE"
    /\ found
    /\ res.status = 204
    /\ res.body = NoContent
    /\ prev = "DELETE"
    /\ teaData /= << >>

(* A path segment that is a decimal integer: digits, after an optional     *)
(* minus sign.                                                             *)
IsIntegerString(s) ==
    LET d == IF s /= << >> /\ Head(s) = "-" THEN Tail(s) ELSE s
    IN  /\ d /= << >>
        /\ \A k \in 1..Len(d) : DigitValue(d[k]) >= 0 /\ DigitValue(d[k]) < 10

(* C10: a getById, updateById or deleteById whose path segment is not an   *)
(* integer answers 404 and leaves teaData as it was.                       *)
C10_NonIntegerIdIsNotFound ==
    [][(req'.method \in {"GET", "PUT", "DELETE"} /\ ~IsIntegerString(req'.id))
       => (res'.status = 404 /\ teaData' = teaData)]_vars

(* C12: a successful update sets name and price of the matching record to  *)
(* the values of the request, an absent one to undefined; the record keeps *)
(* its id and position, the other records and nextId are unchanged, and    *)
(* the response carries the record as it is afterwards.                    *)
C12_UpdateOverwritesBothFields ==
    [][(req'.method = "PUT" /\ Matches(teaData, req'.id) /= {})
       => LET i == CHOOSE i \in Matches(teaData, req'.id) : TRUE
          IN  /\ res'.status = 200
              /\ Len(teaData') = Len(teaData)
              /\ teaData'[i] = [id |-> teaData[i].id,
                                name |-> req'.body.name,
                                price |-> req'.body.price]
              /\ \A j \in 1..Len(teaData) : j /= i => teaData'[j] = teaData[j]
              /\ nextId' = nextId
              /\ res'.body = teaData'[i]]_vars

C12_Witness ==
    /\ req.method = "PUT"
    /\ found
    /\ res.status = 200
    /\ req.body.name /= Undefined
    /\ req.body.price = Undefined
    /\ Len(teaData) >= 2
    /\ res.body = teaData[2]
    /\ res.body.price = Undefined

(* C13: a successful delete takes exactly the element with the id out of   *)
(* teaData; the others stay, in their order, and nextId is unchanged.      *)
C13_DeleteRemovesExactlyOne ==
    [][(req'.method = "DELETE" /\ Matches(teaData, req'.id) /= {})
       => LET i == CHOOSE i \in Matches(teaData, req'.id) : TRUE
          IN  /\ Cardinality(Matches(teaData, req'.id)) = 1
              /\ teaData' = SubSeq(teaData, 1, i - 1)
                            \o SubSeq(teaData, i + 1, Len(teaData))
              /\ nextId' = nextId]_vars

C13_Witness ==
    /\ req.method = "DELETE"
    /\ found
    /\ res.status = 204
    /\ ParseInt(req.id) = <<2>>
    /\ 2 \in deleted
    /\ Len(teaData) = 2
    /\ teaData[1].id = 1
    /\ teaData[2].id = 3

(* C14: create always answers 201, appends exactly the record              *)
(* {id: old nextId, name, price} at the end of teaData and adds 1 to       *)
(* nextId, whatever name and price are, absent ones included.              *)
C14_CreateAlwaysAppends ==
    [][req'.method = "POST"
       => LET newTea == [id |-> nextId, name |-> req'.body.name,
                         price |-> req'.body.price]
          IN  /\ res'.status = 201
              /\ res'.body = newTea
              /\ teaData' = Append(teaData, newTea)
              /\ nextId' = nextId + 1]_vars

C14_Witness ==
    /\ req.method = "POST"
    /\ res.status = 201
    /\ req.body.name = Undefined
    /\ req.body.price = Undefined
    /\ Len(teaData) >= 2
    /\ teaData[Len(teaData)] = [id |-> nextId - 1, name |-> Undefined,
                                price |-> Undefined]

(* C15: list and getById leave teaData and nextId as they were; a list     *)
(* answers with teaData as it is, so a list that follows a list with only  *)
(* reads between them answers with the same sequence.                      *)
C15_ReadsChangeNothing ==
    [][/\ req'.method \in {"LIST", "GET"}
            => (teaData' = teaData /\ nextId' = nextId)
       /\ req'.method = "LIST" => res'.body = teaData
       /\ (req.method = "LIST" /\ req'.method = "LIST")
            => (res'.status = 200 /\ res'.body = res.body)]_vars

C15_Witness ==
    /\ prev = "LIST"
    /\ req.method = "LIST"
    /\ res.status = 200
    /\ Len(res.body) >= 2
    /\ res.body = teaData

(* C16: a record of teaData is still there after every request but a       *)
(* successful delete of its id, with the same id; and with the same name   *)
(* and price after every request but an update of its id.                  *)
C16_RecordStaysUntilDeleted ==
    [][\A i \in 1..Len(teaData) :
          LET own == StrictEq(teaData[i].id, ParseInt(req'.id))
          IN  /\ ~(req'.method = "DELETE" /\ own)
                   => teaData[i].id \in Ids(teaData')
              /\ ~(req'.method \in {"DELETE", "PUT"} /\ own)
                   => \E j \in 1..Len(teaData') : teaData'[j] = teaData[i]]_vars

C16_Witness ==
    /\ req.method = "DELETE"
    /\ found
    /\ prev = "PUT"
    /\ Len(teaData) >= 2
    /\ teaData[1].id = 1
    /\ ParseInt(req.id) = <<2>>
    /\ teaData[2].id = 3

(* C17: the ids of teaData are strictly ascending in sequence order and    *)
(* lie in 1..nextId-1, so teaData has at most nextId-1 records.            *)
C17_IdsAscendingBelowNextId ==
    /\ \A i, j \in 1..Len(teaData) : i < j => teaData[i].id < teaData[j].id
    /\ \A i \in 1..Len(teaData) : teaData[i].id \in 1..(nextId - 1)
    /\ Len(teaData) <= nextId - 1

C17_Witness ==
    /\ Len(teaData) >= 2
    /\ Len(teaData) < nextId - 1
    /\ teaData[1].id > 1
    /\ prev = "PUT"
    /\ req.method = "POST"

(* C11: with several requests in flight no handler is entered while        *)
(* another is part-way, every response is the one the handler gives when   *)
(* run at once in the order the handlers were entered, and so is the store *)
(* whenever no handler is part-way.                                        *)
C11_HandlersAreAtomic ==
    /\ Cardinality(RunningSlots) <= 1
    /\ ~mismatch
    /\ RunningSlots = {} => (teaData = seq.teaData /\ nextId = seq.nextId)

C11_Witness ==
    \E c, d \in Slots :
        /\ slots[c].pc = "post42"
        /\ slots[d].pc = "queued"
        /\ slots[d].method = "DELETE"
        /\ teaData /= << >>
        /\ nextId = Len(teaData) + 3

(* C18: a handler sends one response and then has ended: no request has    *)
(* two responses, an answered request has exactly one, and a handler that  *)
(* is still to execute a statement has sent none.                          *)
C18_ExactlyOneResponse ==
    \A c \in Slots :
        /\ slots[c].sent <= 1
        /\ slots[c].pc = "responded" => slots[c].sent = 1
        /\ IsRunning(slots[c]) => slots[c].sent = 0

C18_Witness ==
    \E c \in Slots :
        /\ slots[c].pc = "responded"
        /\ slots[c].sent = 1
        /\ slots[c].status = 404
        /\ teaData /= << >>
        /\ teaData = seq.teaData

====
